---- MODULE Spec2Model ----
(***************************************************************************)
(* MCP Inspector command-line front end (nbarraud/inspector).              *)
(*                                                                         *)
(* Four parts of the repository are modelled here:                         *)
(*   - the top-level CLI (parseArgs, loadConfigFile, main), which turns a  *)
(*     command line into a launch descriptor and spawns the children;      *)
(*   - the environment handed to the spawned server;                       *)
(*   - the key=value parser of the CLI executor (parseKeyValuePair) and    *)
(*     the env-flag loop of the legacy top-level parser;                   *)
(*   - the single-shot tool-call executor (main / executeCliToolCall), in  *)
(*     its argv variant and its environment-variable variant.              *)
(*                                                                         *)
(* A JavaScript string is a sequence of one-character strings.  A          *)
(* Record<string, string> is a function from a finite set of strings.      *)
(***************************************************************************)
EXTENDS Integers, Sequences, FiniteSets, TLC

VARIABLES
    kvVariant,      \* "cli": parseKeyValuePair, "legacy": the env-flag loop
    kvAcc,          \* the mapping accumulated so far (opts.toolArg / envVars)
    kvCalls,        \* occurrences of the repeatable flag consumed so far
    kvTok,          \* the token of the last call
    kvPrev,         \* contents of the object passed as `previous`, before the call
    kvPrevAfter,    \* contents of that same object after the call
    kvRet,          \* the mapping the call returned
    kvThrew,        \* whether the call raised an error
    foldToks,       \* the tokens given so far to one repeatable flag
    foldAcc,        \* the mapping commander holds for that flag
    variant,        \* "argv": the executor that parses argv; "env": the one that reads MCP_* variables
    launcher,       \* "direct": run by the user; "wrapper": spawned by the top-level CLI, stdio inherited
    cliToolName,    \* whether the tool name is non-empty (--tool-name / MCP_TOOL_NAME)
    mcpServerCommand, \* whether the server command is non-empty (first positional / MCP_COMMAND)
    toolArgsJson,   \* "ok" or "bad": whether MCP_TOOL_ARGS parses as JSON (env variant)
    cliToolArgs,    \* whether at least one tool argument was given (--tool-arg / MCP_TOOL_ARGS)
    pc,             \* where the run stands
    transport,      \* "null" or "constructed": the local `transport` of executeCliToolCall
    resolveCalls,   \* findActualExecutable invocations
    connectCalls,   \* client.connect invocations
    callToolCalls,  \* client.callTool invocations
    closeCalls,     \* transport.close invocations
    connectOutcome, \* "none", "resolved", "rejected"
    callOutcome,    \* "none", "result", "isError" (resolved, flagged as an error), "rejected"
    closeOutcomes,  \* the outcome of each transport.close, in order
    error,          \* the error caught by executeCliToolCall's catch, "none" if none
    thrown,         \* the error that reached main's catch, "none" if none
    returned,       \* executeCliToolCall returned normally
    stdout,         \* what the process wrote to standard output, in order
    stderr,         \* what the process wrote to standard error, in order
    exited,         \* process.exit has been called
    exitCode,       \* its argument; -1 before
    interrupted,    \* the signal the executor received, "none" if none
    childStderr,    \* the chunks the server child wrote to its standard error, in order
    ingestPc,       \* the server arguments on their way through the environment: "none", "args", "joined", "parsed"
    serverArgs,     \* the ordered list of server arguments, each a sequence of characters
    envArgs,        \* the value of MCP_COMMAND_ARGS
    origArgs,       \* what shellParseArgs made of it
    topVariant,     \* "js": bin/cli.js, "ts": bin/src/index.ts
    argvItems,      \* the user's command line, as the units the user typed (a flag with its value, a lone token)
    topPc,          \* where the top-level run stands
    top,            \* the launch descriptor parseArgs is building / has returned
    configFile,     \* what loadConfigFile found at the resolved path, NoFile before it looked
    profile,        \* the server profile loadConfigFile returned, NoProfile if none
    loadCalls,      \* loadConfigFile invocations
    fsCalls,        \* file-system calls made (existsSync, readFileSync)
    spawned,        \* the child processes spawned, in order
    topStdout,      \* what the top-level process wrote with console.log
    topStderr,      \* what it wrote with console.error
    topExited,      \* process.exit has been called in the top-level process
    topExitCode,    \* its argument; -1 before
    cliPc,          \* the CLI executor process seen from outside: "none", "main", "parsed", "exited", "failed"
    cliArgv,        \* its process.argv.slice(2)
    cliDesc,        \* what its parseArgs computed
    cliExit,        \* how it ended: exit code and signal
    ambientEnv,     \* process.env of the executor
    protocolEnv,    \* getDefaultEnvironment()
    jsonEnv,        \* the parsed CLI_ENV_VARS / MCP_ENV_VARS, EmptyMap when unset
    overrideEnv,    \* the descriptor's env overrides (envVars)
    serverEnv,      \* the env option given to StdioClientTransport
    envBuilt        \* whether that environment has been computed

kvVars == <<kvVariant, kvAcc, kvCalls, kvTok, kvPrev, kvPrevAfter, kvRet, kvThrew>>
foldVars == <<foldToks, foldAcc>>
inputVars == <<variant, launcher, cliToolName, mcpServerCommand, toolArgsJson, cliToolArgs>>
callVars == <<transport, resolveCalls, connectCalls, callToolCalls, closeCalls,
              connectOutcome, callOutcome, closeOutcomes>>
flowVars == <<error, thrown, returned>>
ioVars == <<stdout, stderr>>
exitVars == <<exited, exitCode>>
ingestVars == <<ingestPc, serverArgs, envArgs, origArgs>>
sideVars == <<interrupted, childStderr, ingestVars>>
execVars == <<inputVars, pc, callVars, flowVars, ioVars, exitVars, sideVars>>
cliVars == <<cliPc, cliArgv, cliDesc, cliExit>>
wrapperVars == <<topVariant, argvItems, topPc, top, configFile, profile, loadCalls, fsCalls, spawned,
             topStdout, topStderr, topExited, topExitCode>>
topVars == <<wrapperVars, cliVars>>
mergeVars == <<ambientEnv, protocolEnv, jsonEnv, overrideEnv, serverEnv, envBuilt>>
vars == <<kvVars, foldVars, execVars, topVars, mergeVars>>

----------------------------------------------------------------------------
(* Bounds *)

MaxLen == 5
MaxToks == 3
MaxFold == 2

----------------------------------------------------------------------------
(* Strings *)

Char == {"a", "="}

Strings == UNION {[1..n -> Char] : n \in 0..MaxLen}

EmptyMap == <<>>

\* String.prototype.indexOf for a one-character needle; 0 when absent.
IndexOf(s, c) ==
    IF \E i \in 1..Len(s) : s[i] = c
    THEN CHOOSE i \in 1..Len(s) : s[i] = c /\ \A j \in 1..(i - 1) : s[j] # c
    ELSE 0

\* String.prototype.split(sep) for a one-character separator: every piece.
RECURSIVE Split(_, _)
Split(s, sep) ==
    LET i == IndexOf(s, sep)
    IN  IF i = 0
        THEN <<s>>
        ELSE <<SubSeq(s, 1, i - 1)>> \o Split(SubSeq(s, i + 1, Len(s)), sep)

\* const [key, val] = parts : an element past the end is undefined.
Defined(parts, i) == i <= Len(parts)

\* Truthiness of a destructured element: undefined and "" are falsy.
Truthy(parts, i) == Defined(parts, i) /\ parts[i] # <<>>

\* { ...previous, [key]: val }
Spread(previous, key, val) ==
    [k \in (DOMAIN previous) \cup {key} |-> IF k = key THEN val ELSE previous[k]]

----------------------------------------------------------------------------
(* parseKeyValuePair: what it returns, what it leaves in `previous`, and   *)
(* whether it throws.                                                      *)

\* Variant: builds the result from the new pair alone, without `...previous`.
parseKeyValuePairNoSpread(value, previous) ==
    LET parts == Split(value, "=")
    IN  IF Truthy(parts, 1) /\ Truthy(parts, 2)
        THEN [ret |-> Spread(EmptyMap, parts[1], parts[2]),
              previous |-> previous, threw |-> FALSE]
        ELSE [ret |-> previous, previous |-> previous, threw |-> FALSE]

\* Variant: tests the pieces for being defined instead of for being truthy.
parseKeyValuePairAllowsEmpty(value, previous) ==
    LET parts == Split(value, "=")
    IN  IF Defined(parts, 1) /\ Defined(parts, 2)
        THEN [ret |-> Spread(previous, parts[1], parts[2]),
              previous |-> previous, threw |-> FALSE]
        ELSE [ret |-> previous, previous |-> previous, threw |-> FALSE]

parseKeyValuePair(value, previous) ==
    LET parts == Split(value, "=")
    IN  IF Truthy(parts, 1) /\ Truthy(parts, 2)
        THEN [ret |-> Spread(previous, parts[1], parts[2]),
              previous |-> previous, threw |-> FALSE]
        ELSE [ret |-> previous, previous |-> previous, threw |-> FALSE]

\* One iteration of the legacy loop: envVars[key] = value, in place.
legacyEnvLoopBody(env, envVars) ==
    LET parts == Split(env, "=")
    IN  IF Truthy(parts, 1) /\ Truthy(parts, 2)
        THEN [ret |-> Spread(envVars, parts[1], parts[2]),
              previous |-> Spread(envVars, parts[1], parts[2]), threw |-> FALSE]
        ELSE [ret |-> envVars, previous |-> envVars, threw |-> FALSE]

----------------------------------------------------------------------------
(* The parser applied once per occurrence of a repeatable flag *)

KvInit ==
    /\ kvVariant \in {"cli", "legacy"}
    /\ kvAcc = EmptyMap
    /\ kvCalls = 0
    /\ kvTok = <<>>
    /\ kvPrev = EmptyMap
    /\ kvPrevAfter = EmptyMap
    /\ kvRet = EmptyMap
    /\ kvThrew = FALSE

\* commander calls the option's parser with the value and the previous result.
OptionOccurrence(tok) ==
    /\ kvVariant = "cli"
    /\ kvCalls < MaxToks
    /\ LET r == parseKeyValuePair(tok, kvAcc)
       IN  /\ kvTok' = tok
           /\ kvPrev' = kvAcc
           /\ kvPrevAfter' = r.previous
           /\ kvRet' = r.ret
           /\ kvThrew' = r.threw
           /\ kvAcc' = r.ret
    /\ kvCalls' = kvCalls + 1
    /\ UNCHANGED <<kvVariant, foldVars, execVars, topVars, mergeVars>>

LegacyEnvIteration(tok) ==
    /\ kvVariant = "legacy"
    /\ kvCalls < MaxToks
    /\ LET r == legacyEnvLoopBody(tok, kvAcc)
       IN  /\ kvTok' = tok
           /\ kvPrev' = kvAcc
           /\ kvPrevAfter' = r.previous
           /\ kvRet' = r.ret
           /\ kvThrew' = r.threw
           /\ kvAcc' = r.ret
    /\ kvCalls' = kvCalls + 1
    /\ UNCHANGED <<kvVariant, foldVars, execVars, topVars, mergeVars>>

FoldInit ==
    /\ foldToks = <<>>
    /\ foldAcc = EmptyMap

ToolArgOccurrence(tok) ==
    /\ Len(foldToks) < MaxFold
    /\ foldToks' = Append(foldToks, tok)
    /\ foldAcc' = parseKeyValuePair(tok, foldAcc).ret
    /\ UNCHANGED <<kvVars, execVars, topVars, mergeVars>>

KvNext ==
    \/ \E tok \in Strings : OptionOccurrence(tok)
    \/ \E tok \in Strings : LegacyEnvIteration(tok)

FoldNext == \E tok \in Strings : ToolArgOccurrence(tok)

----------------------------------------------------------------------------
(* The CLI executor: main and executeCliToolCall *)

\* No tool-call run in progress (the parser specifications).
ExecIdle ==
    /\ variant = "argv"
    /\ launcher = "direct"
    /\ cliToolName = TRUE
    /\ mcpServerCommand = TRUE
    /\ toolArgsJson = "ok"
    /\ cliToolArgs = FALSE
    /\ pc = "idle"
    /\ transport = "null"
    /\ resolveCalls = 0
    /\ connectCalls = 0
    /\ callToolCalls = 0
    /\ closeCalls = 0
    /\ connectOutcome = "none"
    /\ callOutcome = "none"
    /\ closeOutcomes = <<>>
    /\ error = "none"
    /\ thrown = "none"
    /\ returned = FALSE
    /\ stdout = <<>>
    /\ stderr = <<>>
    /\ exited = FALSE
    /\ exitCode = -1
    /\ interrupted = "none"
    /\ childStderr = <<>>

\* A process about to run: its command line or its MCP_* variables are the
\* inputs, nothing has been constructed or written.
ExecInit ==
    /\ variant \in {"argv", "env"}
    /\ launcher \in {"direct", "wrapper"}
    /\ cliToolName \in BOOLEAN
    /\ mcpServerCommand \in BOOLEAN
    /\ toolArgsJson \in (IF variant = "env" THEN {"ok", "bad"} ELSE {"ok"})
    /\ cliToolArgs \in BOOLEAN
    /\ pc = IF launcher = "wrapper" THEN "wrapper" ELSE "main"
    /\ transport = "null"
    /\ resolveCalls = 0
    /\ connectCalls = 0
    /\ callToolCalls = 0
    /\ closeCalls = 0
    /\ connectOutcome = "none"
    /\ callOutcome = "none"
    /\ closeOutcomes = <<>>
    /\ error = "none"
    /\ thrown = "none"
    /\ returned = FALSE
    /\ stdout = <<>>
    /\ stderr = <<>>
    /\ exited = FALSE
    /\ exitCode = -1
    /\ interrupted = "none"
    /\ childStderr = <<>>

\* process.exit(code)
ProcessExit(code) ==
    /\ exited' = TRUE
    /\ exitCode' = code
    /\ pc' = "exited"

\* The top-level CLI in CLI mode: parseArgs logs with console.log, then
\* runCliClient spawns the executor with { stdio: "inherit" }, so both
\* processes write to the same standard output.
TopLevelLaunch ==
    /\ pc = "wrapper"
    /\ stdout' = stdout \o <<"top-level: Parsing arguments", "top-level: Parsed configuration">>
    /\ pc' = "main"
    /\ UNCHANGED <<topVars, mergeVars, sideVars, kvVars, foldVars, inputVars, callVars, flowVars, stderr, exitVars>>

\* Variant: parseArgs without its last validation.
ParseArgsNoCommandCheck ==
    /\ pc = "main"
    /\ variant = "argv"
    /\ IF ~cliToolName
       THEN /\ stdout' = Append(stdout, "CLI Tool: Parsing arguments")
            /\ stderr' = Append(stderr, "Error: Tool name (--tool-name) is required")
            /\ ProcessExit(1)
       ELSE /\ stdout' = stdout \o <<"CLI Tool: Parsing arguments", "Parsed configuration">>
            /\ stderr' = stderr
            /\ pc' = "execute"
            /\ UNCHANGED exitVars
    /\ UNCHANGED <<topVars, mergeVars, sideVars, kvVars, foldVars, inputVars, callVars, flowVars>>

\* main -> parseArgs (argv variant): the three validations in the order of
\* the code.  The second one cannot fail once the first has passed.
ParseArgs ==
    /\ pc = "main"
    /\ variant = "argv"
    /\ IF ~cliToolName
       THEN /\ stdout' = Append(stdout, "CLI Tool: Parsing arguments")
            /\ stderr' = Append(stderr, "Error: Tool name (--tool-name) is required")
            /\ ProcessExit(1)
       ELSE IF cliToolArgs /\ ~cliToolName
       THEN /\ stdout' = Append(stdout, "CLI Tool: Parsing arguments")
            /\ stderr' = Append(stderr, "Error: Tool arguments (--tool-arg) can only be used with --tool-name flag")
            /\ ProcessExit(1)
       ELSE IF ~mcpServerCommand
       THEN /\ stdout' = Append(stdout, "CLI Tool: Parsing arguments")
            /\ stderr' = Append(stderr, "Error: MCP server command is required as the first argument")
            /\ ProcessExit(1)
       ELSE /\ stdout' = stdout \o <<"CLI Tool: Parsing arguments", "Parsed configuration">>
            /\ stderr' = stderr
            /\ pc' = "execute"
            /\ UNCHANGED exitVars
    /\ UNCHANGED <<topVars, mergeVars, sideVars, kvVars, foldVars, inputVars, callVars, flowVars>>

\* main -> getConfigFromEnvironment (env variant)
GetConfigFromEnvironment ==
    /\ pc = "main"
    /\ variant = "env"
    /\ IF ~cliToolName
       THEN /\ stderr' = Append(stderr, "Error: MCP_TOOL_NAME environment variable is required")
            /\ ProcessExit(1)
            /\ UNCHANGED thrown
       ELSE IF toolArgsJson = "bad"
       THEN \* JSON.parse throws inside main's try
            /\ thrown' = "SyntaxError"
            /\ pc' = "mainCatch"
            /\ UNCHANGED <<stderr, exitVars>>
       ELSE /\ pc' = "execute"
            /\ UNCHANGED <<stderr, exitVars, thrown>>
    /\ UNCHANGED <<topVars, mergeVars, sideVars, kvVars, foldVars, inputVars, callVars, error, returned, stdout>>

\* executeCliToolCall: the two console.log calls before the try
ExecuteBegin ==
    /\ pc = "execute"
    /\ stdout' = stdout \o <<"Executing tool call", "Tool arguments">>
    /\ pc' = "resolve"
    /\ UNCHANGED <<topVars, mergeVars, sideVars, kvVars, foldVars, inputVars, callVars, flowVars, stderr, exitVars>>

\* The env variant's else branch: no command, console.error and process.exit(1).
NoServerCommand ==
    /\ pc = "resolve"
    /\ variant = "env"
    /\ ~mcpServerCommand
    /\ stderr' = Append(stderr, "No MCP server command specified")
    /\ ProcessExit(1)
    /\ UNCHANGED <<topVars, mergeVars, sideVars, kvVars, foldVars, inputVars, callVars, flowVars, stdout>>

\* shellParseArgs (env variant) and findActualExecutable: returns or throws.
ResolveExecutable ==
    /\ pc = "resolve"
    /\ variant = "env" => mcpServerCommand
    /\ resolveCalls' = resolveCalls + 1
    /\ \/ /\ pc' = "construct"
          /\ stdout' = IF variant = "env" THEN Append(stdout, "Stdio transport") ELSE stdout
          /\ UNCHANGED error
       \/ /\ error' = "resolveError"
          /\ pc' = "catch"
          /\ UNCHANGED stdout
    /\ UNCHANGED <<topVars, mergeVars, sideVars, kvVars, foldVars, inputVars, transport, connectCalls, callToolCalls,
                   closeCalls, connectOutcome, callOutcome, closeOutcomes, thrown, returned,
                   stderr, exitVars>>

\* transport = new StdioClientTransport(...); client = new Client(...)
ConstructTransport ==
    /\ pc = "construct"
    /\ \/ /\ transport' = "constructed"
          /\ pc' = "connect"
          /\ UNCHANGED error
       \/ /\ error' = "transportError"
          /\ pc' = "catch"
          /\ UNCHANGED transport
    /\ UNCHANGED <<topVars, mergeVars, sideVars, kvVars, foldVars, inputVars, resolveCalls, connectCalls, callToolCalls, closeCalls,
                   connectOutcome, callOutcome, closeOutcomes, thrown, returned, ioVars, exitVars>>

\* Variant: a rejected connect is noted but the flow goes on to the tool call.
ConnectFallsThrough ==
    /\ pc = "connect"
    /\ connectCalls' = connectCalls + 1
    /\ \/ /\ connectOutcome' = "resolved"
          /\ UNCHANGED error
       \/ /\ connectOutcome' = "rejected"
          /\ error' = "connectError"
    /\ stdout' = IF variant = "env" THEN Append(stdout, "Connected to MCP server") ELSE stdout
    /\ pc' = "callTool"
    /\ UNCHANGED <<topVars, mergeVars, sideVars, kvVars, foldVars, inputVars, resolveCalls, transport, callToolCalls, closeCalls,
                   callOutcome, closeOutcomes, thrown, returned, stderr, exitVars>>

\* await client.connect(transport): spawns the server and does the handshake.
Connect ==
    /\ pc = "connect"
    /\ connectCalls' = connectCalls + 1
    /\ \/ /\ connectOutcome' = "resolved"
          /\ stdout' = IF variant = "env" THEN Append(stdout, "Connected to MCP server") ELSE stdout
          /\ pc' = "callTool"
          /\ UNCHANGED error
       \/ /\ connectOutcome' = "rejected"
          /\ error' = "connectError"
          /\ pc' = "catch"
          /\ UNCHANGED stdout
    /\ UNCHANGED <<topVars, mergeVars, sideVars, kvVars, foldVars, inputVars, resolveCalls, transport, callToolCalls, closeCalls,
                   callOutcome, closeOutcomes, thrown, returned, stderr, exitVars>>

\* const result = await client.callTool({ name, arguments })
CallTool ==
    /\ pc = "callTool"
    /\ callToolCalls' = callToolCalls + 1
    /\ stdout' = IF variant = "env" THEN Append(stdout, "Calling tool") ELSE stdout
    /\ \/ /\ callOutcome' \in {"result", "isError"}
          /\ pc' = "print"
          /\ UNCHANGED error
       \/ /\ callOutcome' = "rejected"
          /\ error' = "callToolError"
          /\ pc' = "catch"
    /\ UNCHANGED <<topVars, mergeVars, sideVars, kvVars, foldVars, inputVars, resolveCalls, transport, connectCalls, closeCalls,
                   connectOutcome, closeOutcomes, thrown, returned, stderr, exitVars>>

\* console.log("Tool call result:"); console.log(JSON.stringify(result, null, 2))
PrintResult ==
    /\ pc = "print"
    /\ stdout' = stdout \o <<"Tool call result:", "JSON result">>
    /\ pc' = "close"
    /\ UNCHANGED <<topVars, mergeVars, sideVars, kvVars, foldVars, inputVars, callVars, flowVars, stderr, exitVars>>

\* await transport.close() at the end of the try block
CloseAfterCall ==
    /\ pc = "close"
    /\ closeCalls' = closeCalls + 1
    /\ \/ /\ closeOutcomes' = Append(closeOutcomes, "resolved")
          /\ returned' = TRUE
          /\ pc' = "returned"
          /\ UNCHANGED error
       \/ /\ closeOutcomes' = Append(closeOutcomes, "rejected")
          /\ error' = "closeError"
          /\ pc' = "catch"
          /\ UNCHANGED returned
    /\ UNCHANGED <<topVars, mergeVars, sideVars, kvVars, foldVars, inputVars, resolveCalls, transport, connectCalls, callToolCalls,
                   connectOutcome, callOutcome, thrown, ioVars, exitVars>>

\* Variant: the catch block logs and rethrows without closing the transport.
CatchErrorSkipsClose ==
    /\ pc = "catch"
    /\ stderr' = Append(stderr, "Error executing tool call")
    /\ pc' = "rethrow"
    /\ UNCHANGED <<topVars, mergeVars, sideVars, kvVars, foldVars, inputVars, callVars, flowVars, stdout, exitVars>>

\* catch (error): console.error, then if (transport) go on to close it
CatchError ==
    /\ pc = "catch"
    /\ stderr' = Append(stderr, "Error executing tool call")
    /\ pc' = IF transport # "null" THEN "catchClose" ELSE "rethrow"
    /\ UNCHANGED <<topVars, mergeVars, sideVars, kvVars, foldVars, inputVars, callVars, flowVars, stdout, exitVars>>

\* try { await transport.close() } catch (closeError) { console.error(...) }
CloseInCatch ==
    /\ pc = "catchClose"
    /\ closeCalls' = closeCalls + 1
    /\ \/ /\ closeOutcomes' = Append(closeOutcomes, "resolved")
          /\ UNCHANGED stderr
       \/ /\ closeOutcomes' = Append(closeOutcomes, "rejected")
          /\ stderr' = Append(stderr, "Error closing transport")
    /\ pc' = "rethrow"
    /\ UNCHANGED <<topVars, mergeVars, sideVars, kvVars, foldVars, inputVars, resolveCalls, transport, connectCalls, callToolCalls,
                   connectOutcome, callOutcome, flowVars, stdout, exitVars>>

\* throw error
Rethrow ==
    /\ pc = "rethrow"
    /\ thrown' = error
    /\ pc' = "mainCatch"
    /\ UNCHANGED <<topVars, mergeVars, sideVars, kvVars, foldVars, inputVars, callVars, error, returned, ioVars, exitVars>>

\* Variant: main returns after executeCliToolCall without calling process.exit.
MainReturnsWithoutExit ==
    /\ pc = "returned"
    /\ pc' = "done"
    /\ UNCHANGED <<topVars, mergeVars, sideVars, kvVars, foldVars, inputVars, callVars, flowVars, ioVars, exitVars>>

\* main: process.exit(0) after executeCliToolCall returned
MainExitZero ==
    /\ pc = "returned"
    /\ ProcessExit(0)
    /\ UNCHANGED <<topVars, mergeVars, sideVars, kvVars, foldVars, inputVars, callVars, flowVars, ioVars>>

\* Variant: main's catch logs the error and exits with code 0.
MainCatchExitsZero ==
    /\ pc = "mainCatch"
    /\ stderr' = Append(stderr, "Failed to execute tool call")
    /\ ProcessExit(0)
    /\ UNCHANGED <<topVars, mergeVars, sideVars, kvVars, foldVars, inputVars, callVars, flowVars, stdout>>

\* main: catch (error) { console.error(...); process.exit(1) }
MainCatch ==
    /\ pc = "mainCatch"
    /\ stderr' = Append(stderr, "Failed to execute tool call")
    /\ ProcessExit(1)
    /\ UNCHANGED <<topVars, mergeVars, sideVars, kvVars, foldVars, inputVars, callVars, flowVars, stdout>>

----------------------------------------------------------------------------
(* The CLI executor and its surroundings: signals, the server's stderr *)

MaxChunks == 2

\* The server child exists from client.connect (which starts the transport)
\* until transport.close.
ServerChildSpawned == connectCalls > 0

\* The number the operating system gives each signal.
SignalNumber(sig) == IF sig = "SIGINT" THEN 2 ELSE 15

\* SIGINT or SIGTERM reaches the executor.  Neither main nor
\* executeCliToolCall registers a handler with process.on, so Node's default
\* applies: the process ends at once with status 128 + signal number; no
\* catch block runs, transport.close is not called and the child is not
\* signalled by this process.
Interrupt(sig) ==
    /\ pc \notin {"idle", "wrapper", "exited"}
    /\ interrupted' = sig
    /\ exited' = TRUE
    /\ exitCode' = 128 + SignalNumber(sig)
    /\ pc' = "exited"
    /\ UNCHANGED <<topVars, mergeVars, kvVars, foldVars, inputVars, callVars, flowVars, ioVars, childStderr, ingestVars>>

\* The server child writes a chunk to its standard error.  The transport is
\* constructed with stderr: "pipe" and nothing reads transport.stderr: the
\* chunk stays in the pipe.
ServerWritesStderr ==
    /\ ServerChildSpawned
    /\ closeCalls = 0
    /\ ~exited
    /\ Len(childStderr) < MaxChunks
    /\ childStderr' = Append(childStderr, "chunk")
    /\ UNCHANGED <<topVars, mergeVars, kvVars, foldVars, inputVars, pc, callVars, flowVars, ioVars, exitVars, interrupted, ingestVars>>

----------------------------------------------------------------------------
(* Server arguments handed over in MCP_COMMAND_ARGS *)

MaxArgs == 2
MaxArgLen == 2

\* The characters of a server argument: a letter and the space.
ArgChar == {"a", " "}

ArgStrings == UNION {[1..n -> ArgChar] : n \in 0..MaxArgLen}

ArgLists == UNION {[1..n -> ArgStrings] : n \in 0..MaxArgs}

\* Array.prototype.join(" ") on strings: the characters of the result.
RECURSIVE joinWithSpaces(_)
joinWithSpaces(list) ==
    IF list = <<>> THEN <<>>
    ELSE IF Len(list) = 1 THEN list[1]
    ELSE list[1] \o <<" ">> \o joinWithSpaces(Tail(list))

NotEmpty(piece) == piece # <<>>

\* shell-quote's parse on a string of letters and spaces: the maximal runs
\* of characters other than white space, in order.
shellParseArgs(str) == SelectSeq(Split(str, " "), NotEmpty)

IngestIdle ==
    /\ ingestPc = "none"
    /\ serverArgs = <<>>
    /\ envArgs = <<>>
    /\ origArgs = <<>>

\* A list of server arguments about to be handed to the executor.
IngestInit ==
    /\ ingestPc = "args"
    /\ serverArgs \in ArgLists
    /\ envArgs = <<>>
    /\ origArgs = <<>>

\* The parent puts the arguments, joined with single spaces, into
\* MCP_COMMAND_ARGS.
SetCommandArgs ==
    /\ ingestPc = "args"
    /\ envArgs' = joinWithSpaces(serverArgs)
    /\ ingestPc' = "joined"
    /\ UNCHANGED <<serverArgs, origArgs>>
    /\ UNCHANGED <<kvVars, foldVars, inputVars, pc, callVars, flowVars, ioVars, exitVars,
                   interrupted, childStderr, topVars, mergeVars>>

\* getConfigFromEnvironment reads MCP_COMMAND_ARGS (|| "") and
\* executeCliToolCall tokenises it: origArgs = shellParseArgs(envArgs).
IngestCommandArgs ==
    /\ ingestPc = "joined"
    /\ origArgs' = shellParseArgs(envArgs)
    /\ ingestPc' = "parsed"
    /\ UNCHANGED <<serverArgs, envArgs>>
    /\ UNCHANGED <<kvVars, foldVars, inputVars, pc, callVars, flowVars, ioVars, exitVars,
                   interrupted, childStderr, topVars, mergeVars>>

IngestNext ==
    \/ SetCommandArgs
    \/ IngestCommandArgs

----------------------------------------------------------------------------
(* The top-level CLI: command-line tokens and commander's option parsing *)

MaxItems == 4

\* What a user types on the command line: a flag together with its value, or
\* a lone token.  process.argv.slice(2) is the concatenation of the units.
Items ==
    { <<"-e", "K=V">>, <<"--env", "K=V">>,
      <<"--config", "cfg.json">>, <<"--config", "/etc/cfg.json">>,
      <<"--server", "dev">>, <<"--cli">>,
      <<"--tool-name", "tool">>, <<"--tool-arg", "k=v">>,
      <<"srv">>, <<"arg">>, <<"--debug">>, <<"--">> }

ItemSeqs == UNION {[1..n -> Items] : n \in 0..MaxItems}

\* process.argv.slice(2)
RECURSIVE Flatten(_)
Flatten(items) ==
    IF items = <<>> THEN <<>> ELSE Head(items) \o Flatten(Tail(items))

\* Array.prototype.indexOf, 0 when absent (JavaScript: -1).
FirstIndexOf(seq, x) ==
    IF \E i \in 1..Len(seq) : seq[i] = x
    THEN CHOOSE i \in 1..Len(seq) : seq[i] = x /\ \A j \in 1..(i - 1) : seq[j] # x
    ELSE 0

NotSeparator(tok) == tok # "--"

knownOptionsWithoutSeparator(args) == SelectSeq(args, NotSeparator)

\* separatorIndex === -1 ? args : args.slice(0, separatorIndex)
knownOptions(args) ==
    LET separatorIndex == FirstIndexOf(args, "--")
    IN  IF separatorIndex = 0 THEN args ELSE SubSeq(args, 1, separatorIndex - 1)

\* separatorIndex === -1 ? [] : args.slice(separatorIndex + 1)
unknownOptions(args) ==
    LET separatorIndex == FirstIndexOf(args, "--")
    IN  IF separatorIndex = 0 THEN <<>> ELSE SubSeq(args, separatorIndex + 1, Len(args))

\* commander's maybeOption: the token is longer than one character and
\* starts with '-'.  These are the tokens of the alphabet that do.
maybeOption(arg) ==
    arg \in {"-e", "--env", "--config", "--server", "--cli", "--tool-name",
             "--tool-arg", "--debug", "--",
             "--env K=V", "--env other", "--tool-arg k=v", "--tool-arg other"}

\* The attribute names under which commander stores option values.
OptNames == {"e", "E", "env", "config", "server", "cli", "toolName", "toolArg"}

\* The options registered on the parser of the front segment.  In the
\* TypeScript source the env option is declared "--env -e <env>": commander
\* takes the first word as the short spelling and the second as the long
\* one, so both spellings are recognised and the value is stored under the
\* attribute derived from "-e".
knownProgramOptions(v) ==
    { IF v = "js"
      THEN [spellings |-> {"-e"}, name |-> "e", required |-> TRUE]
      ELSE [spellings |-> {"--env", "-e"}, name |-> "E", required |-> TRUE],
      [spellings |-> {"--config"}, name |-> "config", required |-> TRUE],
      [spellings |-> {"--server"}, name |-> "server", required |-> TRUE],
      [spellings |-> {"--cli"}, name |-> "cli", required |-> FALSE],
      [spellings |-> {"--tool-name"}, name |-> "toolName", required |-> TRUE],
      [spellings |-> {"--tool-arg"}, name |-> "toolArg", required |-> TRUE] }

\* The parser of the passthrough segment registers no option.
unknownProgramOptions == {}

\* commander's _findOption
Registered(options, arg) == \E o \in options : arg \in o.spellings
FindOption(options, arg) == CHOOSE o \in options : arg \in o.spellings

\* commander's state while it scans: the values given to each option in
\* order, the operands, the tokens from the first unknown option on, and
\* which of the two lists a token that is not an option goes to.
ScanStart ==
    [occ |-> [n \in OptNames |-> <<>>], operands |-> <<>>, unknown |-> <<>>,
     dest |-> "operands", error |-> "none"]

\* commander's parseOptions.  "--" ends option processing (and is itself kept
\* only after an unknown option); a registered option that takes a value
\* consumes the next token whatever it is; a token that is not a registered
\* option is an operand, or, from the first unknown option on, an unknown.
RECURSIVE parseOptions(_, _, _)
parseOptions(options, toks, st) ==
    IF toks = <<>> \/ st.error # "none"
    THEN st
    ELSE LET arg == Head(toks)
             rest == Tail(toks)
         IN  IF arg = "--"
             THEN [st EXCEPT ![st.dest] =
                      (IF st.dest = "unknown" THEN Append(@, arg) ELSE @) \o rest]
             ELSE IF maybeOption(arg) /\ Registered(options, arg)
             THEN LET o == FindOption(options, arg)
                  IN  IF o.required
                      THEN IF rest = <<>>
                           THEN [st EXCEPT !.error = "optionMissingArgument"]
                           ELSE parseOptions(options, Tail(rest),
                                    [st EXCEPT !.occ[o.name] = Append(@, Head(rest))])
                      ELSE parseOptions(options, rest,
                                    [st EXCEPT !.occ[o.name] = Append(@, "true")])
             ELSE LET d == IF maybeOption(arg) THEN "unknown" ELSE st.dest
                  IN  parseOptions(options, rest,
                          [st EXCEPT !.dest = d, ![d] = Append(@, arg)])

\* commander's _prepareUserArgs: with { from: "user" } every element of the
\* array is a user argument; by default ("node") the first two are skipped.
prepareUserArgs(argv, from) ==
    IF from = "user" THEN argv ELSE SubSeq(argv, 3, Len(argv))

\* Command.parse with allowUnknownOption and allowExcessArguments:
\* opts() is read from occ, and args is the operands followed by the unknowns.
commanderParse(options, argv, from) ==
    LET st == parseOptions(options, prepareUserArgs(argv, from), ScanStart)
    IN  [occ |-> st.occ, args |-> st.operands \o st.unknown, error |-> st.error]

\* The last value given to a single-valued option, "" when it was not given
\* (opts.x || "").
LastOr(values, default) ==
    IF values = <<>> THEN default ELSE values[Len(values)]

----------------------------------------------------------------------------
(* The top-level CLI: parseArgs, loadConfigFile, main *)

\* An env value of the descriptor: the array the -e collector builds, or the
\* object a profile of the configuration file carries.
ArrayOf(items) == [kind |-> "array", items |-> items]
ObjectOf(items) == [kind |-> "object", items |-> items]

\* const result = { mcpServerCommand: "", mcpServerArgs: [], envVars: [], ... }
EmptyResult ==
    [mcpServerCommand |-> "", mcpServerArgs |-> <<>>, envVars |-> ArrayOf(<<>>),
     configPath |-> "", serverName |-> "", cliMode |-> FALSE,
     cliToolName |-> "", cliToolArgs |-> <<>>]

\* result.x = opts.x || default, for each recognised option
resultOfOpts(v, occ) ==
    [EmptyResult EXCEPT
        !.envVars = ArrayOf(IF v = "js" THEN occ["e"] ELSE <<>>),
        !.configPath = LastOr(occ["config"], ""),
        !.serverName = LastOr(occ["server"], ""),
        !.cliMode = occ["cli"] # <<>>,
        !.cliToolName = LastOr(occ["toolName"], ""),
        !.cliToolArgs = occ["toolArg"]]

Message(msg, detail) == [msg |-> msg, detail |-> detail]

topValidationNoServerCheck(v, r) ==
    IF v = "js"
    THEN CASE r.configPath = "" /\ r.serverName # "" -> "Error: When using --server, you must also specify --config"
           [] r.cliMode /\ r.cliToolName = "" -> "Error: When using --cli, you must also specify --tool-name"
           [] ~r.cliMode /\ r.cliToolName # "" -> "Error: When using --tool-name, you must also specify --cli"
           [] r.cliToolArgs # <<>> /\ (~r.cliMode \/ r.cliToolName = "") ->
                  "Error: Tool arguments (--tool-arg) can only be used with both --cli and --tool-name flags"
           [] OTHER -> "ok"
    ELSE CASE (r.configPath = "") /\ (r.serverName # "") -> "Error: --config and --server flags must be used together"
           [] r.cliMode # (r.cliToolName # "") -> "Error: --cli and --tool-name flags must be used together"
           [] OTHER -> "TypeError"

topValidationNoToolArgCheck(v, r) ==
    IF v = "js"
    THEN CASE r.configPath # "" /\ r.serverName = "" -> "Error: When using --config, you must also specify --server"
           [] r.configPath = "" /\ r.serverName # "" -> "Error: When using --server, you must also specify --config"
           [] r.cliMode /\ r.cliToolName = "" -> "Error: When using --cli, you must also specify --tool-name"
           [] ~r.cliMode /\ r.cliToolName # "" -> "Error: When using --tool-name, you must also specify --cli"
           [] OTHER -> "ok"
    ELSE CASE (r.configPath # "") # (r.serverName # "") -> "Error: --config and --server flags must be used together"
           [] r.cliMode # (r.cliToolName # "") -> "Error: --cli and --tool-name flags must be used together"
           [] OTHER -> "ok"

\* The validations of parseArgs, in the order of the code: the first one that
\* fails gives the message written before process.exit(1); "ok" if none
\* fails.  The TypeScript source then reads parsedArgs.toolArgs.length, and
\* commander stores --tool-arg under toolArg: the read raises a TypeError.
topValidation(v, r) ==
    IF v = "js"
    THEN CASE r.configPath # "" /\ r.serverName = "" -> "Error: When using --config, you must also specify --server"
           [] r.configPath = "" /\ r.serverName # "" -> "Error: When using --server, you must also specify --config"
           [] r.cliMode /\ r.cliToolName = "" -> "Error: When using --cli, you must also specify --tool-name"
           [] ~r.cliMode /\ r.cliToolName # "" -> "Error: When using --tool-name, you must also specify --cli"
           [] r.cliToolArgs # <<>> /\ (~r.cliMode \/ r.cliToolName = "") ->
                  "Error: Tool arguments (--tool-arg) can only be used with both --cli and --tool-name flags"
           [] OTHER -> "ok"
    ELSE CASE (r.configPath # "") # (r.serverName # "") -> "Error: --config and --server flags must be used together"
           [] r.cliMode # (r.cliToolName # "") -> "Error: --cli and --tool-name flags must be used together"
           [] OTHER -> "TypeError"

\* No top-level run in progress (the other specifications).
NoProfile ==
    [present |-> FALSE, command |-> "", hasArgs |-> FALSE, args |-> <<>>,
     hasEnv |-> FALSE, env |-> <<>>]

\* The CLI executor's parseArgs has not run: const result = { mcpServerCommand: "", ... }
NoDesc ==
    [mcpServerCommand |-> "", mcpServerArgs |-> <<>>, envVars |-> EmptyMap,
     cliToolName |-> "", cliToolArgs |-> EmptyMap, verdict |-> "none"]

\* The CLI executor has not ended.
NoExit == [code |-> -1, signal |-> "none"]

\* No CLI executor process.
CliIdle ==
    /\ cliPc = "none"
    /\ cliArgv = <<>>
    /\ cliDesc = NoDesc
    /\ cliExit = NoExit

\* loadConfigFile has not looked at the file system.
NoFile == [state |-> "none", hasMcpServers |-> FALSE, names |-> <<>>, entry |-> NoProfile]

TopIdle ==
    /\ topVariant = "js"
    /\ argvItems = <<>>
    /\ topPc = "idle"
    /\ top = EmptyResult
    /\ configFile = NoFile
    /\ profile = NoProfile
    /\ loadCalls = 0
    /\ fsCalls = 0
    /\ spawned = <<>>
    /\ topStdout = <<>>
    /\ topStderr = <<>>
    /\ topExited = FALSE
    /\ topExitCode = -1
    /\ CliIdle

\* The top-level process about to run main on the user's command line.
TopInit ==
    /\ topVariant \in {"js", "ts"}
    /\ argvItems \in ItemSeqs
    /\ topPc = "start"
    /\ top = EmptyResult
    /\ configFile = NoFile
    /\ profile = NoProfile
    /\ loadCalls = 0
    /\ fsCalls = 0
    /\ spawned = <<>>
    /\ topStdout = <<>>
    /\ topStderr = <<>>
    /\ topExited = FALSE
    /\ topExitCode = -1
    /\ CliIdle

\* console.error(msg); process.exit(code)
TopFail(said, entries, code) ==
    /\ topStdout' = topStdout \o said
    /\ topStderr' = topStderr \o entries
    /\ topExited' = TRUE
    /\ topExitCode' = code
    /\ topPc' = "exited"

\* [...remainingKnownArgs, ...remainingUnknownArgs]: each of the two parsers
\* is given ["node", "script.js", ...tokens] with { from: "user" }.
mergedArgs(v, args) ==
    commanderParse(knownProgramOptions(v), <<"node", "script.js">> \o knownOptions(args), "user").args
    \o commanderParse(unknownProgramOptions, <<"node", "script.js">> \o unknownOptions(args), "user").args

\* main -> parseArgs(process.argv.slice(2)), up to the call of loadConfigFile
\* or, without a configuration file, up to its return.
TopParseArgs ==
    /\ topPc = "start"
    /\ LET args == Flatten(argvItems)
           known == commanderParse(knownProgramOptions(topVariant),
                                   <<"node", "script.js">> \o knownOptions(args), "user")
           result == resultOfOpts(topVariant, known.occ)
           verdict == topValidation(topVariant, result)
           merged == mergedArgs(topVariant, args)
           said == IF topVariant = "js" THEN <<"Top-level CLI: Parsing arguments">> ELSE <<>>
       IN  IF known.error # "none"
           THEN /\ TopFail(said, <<Message("error: option argument missing", <<>>)>>, 1)
                /\ UNCHANGED top
           ELSE IF verdict # "ok"
           THEN /\ TopFail(said, <<Message(verdict, <<>>)>>, 1)
                /\ top' = result
           ELSE IF result.configPath # ""
           THEN /\ top' = result
                /\ topPc' = "loadConfig"
                /\ topStdout' = topStdout \o said
                /\ UNCHANGED <<topStderr, topExited, topExitCode>>
           ELSE /\ top' = IF merged # <<>>
                          THEN [result EXCEPT !.mcpServerCommand = Head(merged),
                                              !.mcpServerArgs = Tail(merged)]
                          ELSE result
                /\ topPc' = "parsed"
                /\ topStdout' = topStdout \o said \o <<"Parsed configuration">>
                /\ UNCHANGED <<topStderr, topExited, topExitCode>>
    /\ UNCHANGED <<topVariant, argvItems, configFile, profile, loadCalls, fsCalls, spawned, cliVars>>
    /\ UNCHANGED <<kvVars, foldVars, execVars, mergeVars>>

\* path.isAbsolute
IsAbsolute(p) == p \in {"/etc/cfg.json"}

resolvedConfigPathUnresolved(configPath) == <<configPath>>

\* path.isAbsolute(configPath) ? configPath : path.resolve(process.cwd(), configPath)
\* A path is the sequence of its parts.
resolvedConfigPath(configPath) ==
    IF IsAbsolute(configPath) THEN <<configPath>> ELSE <<"cwd", configPath>>

\* The profiles a configuration file may hold under the requested name.
Profiles ==
    { [present |-> TRUE, command |-> "pcmd",
       hasArgs |-> a, args |-> IF a THEN <<"parg">> ELSE <<>>,
       hasEnv |-> e, env |-> IF e THEN <<"PKEY=pval">> ELSE <<>>] : a, e \in BOOLEAN }

\* Object.keys(mcpServers), in insertion order.
NameLists == {<<>>, <<"dev">>, <<"prod">>, <<"dev", "prod">>, <<"prod", "dev">>}

\* What the file system holds at the resolved path when loadConfigFile looks:
\* nothing, a file that cannot be read, text that is not JSON, or a JSON
\* object with or without mcpServers.
FileStates ==
    { [state |-> s, hasMcpServers |-> FALSE, names |-> <<>>, entry |-> NoProfile] :
          s \in {"missing", "unreadable", "invalidJson", "parsed"} }
    \cup { [state |-> "parsed", hasMcpServers |-> TRUE, names |-> ns, entry |-> p] :
          ns \in NameLists, p \in Profiles }

\* Array.prototype.join(sep): the pieces of the resulting string.
RECURSIVE Join(_, _)
Join(names, sep) ==
    IF names = <<>> THEN <<>>
    ELSE IF Len(names) = 1 THEN <<names[1]>>
    ELSE <<names[1], sep>> \o Join(Tail(names), sep)

\* !parsedConfig.mcpServers || !parsedConfig.mcpServers[serverName]
serverMissing(file, serverName) ==
    ~file.hasMcpServers \/ ~(\E i \in 1..Len(file.names) : file.names[i] = serverName)

notFoundMessagesTerse(file, serverName) ==
    <<Message("Error: Server not found in config file", <<serverName>>)>>
    \o (IF file.names = <<>> THEN <<>>
        ELSE <<Message("Available servers: ", Join(file.names, ", "))>>)

\* console.error(`Error: Server '${serverName}' not found in config file`);
\* console.error(`Available servers: ${Object.keys(parsedConfig.mcpServers || {}).join(", ")}`)
notFoundMessages(file, serverName) ==
    << Message("Error: Server not found in config file", <<serverName>>),
       Message("Available servers: ", Join(file.names, ", ")) >>

applyServerConfigMerging(result, serverConfig) ==
    [result EXCEPT
        !.mcpServerCommand = serverConfig.command,
        !.mcpServerArgs = IF serverConfig.hasArgs THEN serverConfig.args ELSE <<>>,
        !.envVars = IF result.envVars.items # <<>> THEN result.envVars
                    ELSE IF serverConfig.hasEnv THEN ObjectOf(serverConfig.env)
                    ELSE ArrayOf(<<>>)]

\* result.mcpServerCommand = serverConfig.command;
\* result.mcpServerArgs = serverConfig.args || [];
\* result.envVars = serverConfig.env || [];
applyServerConfig(result, serverConfig) ==
    [result EXCEPT
        !.mcpServerCommand = serverConfig.command,
        !.mcpServerArgs = IF serverConfig.hasArgs THEN serverConfig.args ELSE <<>>,
        !.envVars = IF serverConfig.hasEnv THEN ObjectOf(serverConfig.env)
                    ELSE ArrayOf(<<>>)]

\* loadConfigFile(result.configPath, result.serverName) and the rest of
\* parseArgs after it.  Every failure ends in process.exit(1).
LoadConfigFile ==
    /\ topPc = "loadConfig"
    /\ loadCalls' = loadCalls + 1
    /\ \E file \in FileStates :
          /\ configFile' = file
          /\ LET path == resolvedConfigPath(top.configPath)
             IN
              CASE file.state = "missing" ->
                     /\ fsCalls' = fsCalls + 1
                     /\ TopFail(<<>>, <<Message("Error: Config file not found: ", path)>>, 1)
                     /\ UNCHANGED <<top, profile>>
                [] file.state = "unreadable" ->
                     /\ fsCalls' = fsCalls + 2
                     /\ TopFail(<<>>, <<Message("Error processing config file: ", <<"read error">>)>>, 1)
                     /\ UNCHANGED <<top, profile>>
                [] file.state = "invalidJson" ->
                     /\ fsCalls' = fsCalls + 2
                     /\ TopFail(<<>>, <<Message("Error: Invalid JSON in config file: ", <<"parser message">>)>>, 1)
                     /\ UNCHANGED <<top, profile>>
                [] file.state = "parsed" /\ serverMissing(file, top.serverName) ->
                     /\ fsCalls' = fsCalls + 2
                     /\ TopFail(<<>>, notFoundMessages(file, top.serverName), 1)
                     /\ UNCHANGED <<top, profile>>
                [] OTHER ->
                     /\ fsCalls' = fsCalls + 2
                     /\ profile' = file.entry
                     /\ top' = applyServerConfig(top, file.entry)
                     /\ topStdout' = topStdout \o <<"Using server configuration", "Parsed configuration">>
                     /\ topPc' = "parsed"
                     /\ UNCHANGED <<topStderr, topExited, topExitCode>>
    /\ UNCHANGED <<topVariant, argvItems, spawned, cliVars>>
    /\ UNCHANGED <<kvVars, foldVars, execVars, mergeVars>>

\* The one-token strings runCliClient builds with template literals.
Glued(flag, value) ==
    CASE flag = "--env" /\ value = "K=V" -> "--env K=V"
      [] flag = "--tool-arg" /\ value = "k=v" -> "--tool-arg k=v"
      [] flag = "--env" -> "--env other"
      [] OTHER -> "--tool-arg other"

\* Array.prototype.map with the template literal `${flag} ${item}`
GluedAll(flag, items) == [i \in 1..Len(items) |-> Glued(flag, items[i])]

\* main after parseArgs returned: runCliClient spawns the CLI executor, or
\* runWebClient spawns the inspector server and the web client.  In CLI mode
\* the env entries are mapped with Array.prototype.map, which an object (the
\* env of a profile) does not have: the TypeError reaches main().catch.
TopMain ==
    /\ topPc = "parsed"
    /\ IF top.cliMode
       THEN IF top.envVars.kind = "object"
            THEN /\ TopFail(<<>>, <<Message("TypeError", <<"envVars.map is not a function">>)>>, 1)
                 /\ UNCHANGED <<spawned, cliPc, cliArgv>>
            ELSE LET cliArgs == <<top.mcpServerCommand>> \o top.mcpServerArgs
                                \o GluedAll("--env", top.envVars.items)
                                \o <<"--tool-name", top.cliToolName>>
                                \o GluedAll("--tool-arg", top.cliToolArgs)
                 IN  /\ spawned' = Append(spawned, [child |-> "cli", args |-> cliArgs])
                     /\ cliArgv' = cliArgs
                     /\ cliPc' = "main"
                     /\ topPc' = "cliRunning"
                     /\ UNCHANGED <<topStdout, topStderr, topExited, topExitCode>>
       ELSE /\ spawned' = spawned \o << [child |-> "server", args |-> <<>>],
                                        [child |-> "client", args |-> <<>>] >>
            /\ topStdout' = Append(topStdout, "Starting MCP inspector...")
            /\ topPc' = "webRunning"
            /\ UNCHANGED <<topStderr, topExited, topExitCode, cliPc, cliArgv>>
    /\ UNCHANGED <<topVariant, argvItems, top, configFile, profile, loadCalls, fsCalls, cliDesc, cliExit>>
    /\ UNCHANGED <<kvVars, foldVars, execVars, mergeVars>>

TopNext ==
    \/ TopParseArgs
    \/ LoadConfigFile
    \/ TopMain

----------------------------------------------------------------------------
(* The CLI executor run as the child of the top-level CLI *)

\* The characters of a token, for parseKeyValuePair.  Of the tokens that
\* occur only "K=V" and "k=v" hold an '='; any other token is one piece.
Chars(tok) ==
    CASE tok = "K=V" -> <<"K", "=", "V">>
      [] tok = "k=v" -> <<"k", "=", "v">>
      [] tok = "" -> <<>>
      [] OTHER -> <<tok>>

\* The options the executor registers, all three taking a value.
executorProgramOptions ==
    { [spellings |-> {"--env"}, name |-> "env", required |-> TRUE],
      [spellings |-> {"--tool-name"}, name |-> "toolName", required |-> TRUE],
      [spellings |-> {"--tool-arg"}, name |-> "toolArg", required |-> TRUE] }

\* commander calls the option's parser once per occurrence with the value
\* stored so far, and stores what it returns.
RECURSIVE FoldPairs(_, _)
FoldPairs(values, previous) ==
    IF values = <<>>
    THEN previous
    ELSE FoldPairs(Tail(values), parseKeyValuePair(Chars(Head(values)), previous).ret)

\* Variant: parses the list as user arguments, program.parse(args, { from: "user" }).
execParseArgsFromUser(args) ==
    LET p == commanderParse(executorProgramOptions, args, "user")
        toolName == LastOr(p.occ["toolName"], "")
        toolArg == FoldPairs(p.occ["toolArg"], EmptyMap)
        command == IF p.args = <<>> THEN "" ELSE Head(p.args)
    IN  [mcpServerCommand |-> command,
         mcpServerArgs |-> IF p.args = <<>> THEN <<>> ELSE Tail(p.args),
         envVars |-> FoldPairs(p.occ["env"], EmptyMap),
         cliToolName |-> toolName,
         cliToolArgs |-> toolArg,
         verdict |-> CASE p.error # "none" -> "error: option argument missing"
                       [] toolName = "" -> "Error: Tool name (--tool-name) is required"
                       [] DOMAIN toolArg # {} /\ toolName = "" ->
                              "Error: Tool arguments (--tool-arg) can only be used with --tool-name flag"
                       [] command = "" -> "Error: MCP server command is required as the first argument"
                       [] OTHER -> "ok"]

\* The executor's parseArgs on process.argv.slice(2).  program.parse(args)
\* is called without a second argument, so commander takes the list for a
\* whole process.argv and leaves out its first two elements.
execParseArgs(args) ==
    LET p == commanderParse(executorProgramOptions, args, "node")
        toolName == LastOr(p.occ["toolName"], "")
        toolArg == FoldPairs(p.occ["toolArg"], EmptyMap)
        command == IF p.args = <<>> THEN "" ELSE Head(p.args)
    IN  [mcpServerCommand |-> command,
         mcpServerArgs |-> IF p.args = <<>> THEN <<>> ELSE Tail(p.args),
         envVars |-> FoldPairs(p.occ["env"], EmptyMap),
         cliToolName |-> toolName,
         cliToolArgs |-> toolArg,
         verdict |-> CASE p.error # "none" -> "error: option argument missing"
                       [] toolName = "" -> "Error: Tool name (--tool-name) is required"
                       [] DOMAIN toolArg # {} /\ toolName = "" ->
                              "Error: Tool arguments (--tool-arg) can only be used with --tool-name flag"
                       [] command = "" -> "Error: MCP server command is required as the first argument"
                       [] OTHER -> "ok"]

\* The executor's main up to the return of parseArgs: a failed validation
\* (or commander's own error) ends the process with code 1.
ChildParseArgs ==
    /\ cliPc = "main"
    /\ cliDesc' = execParseArgs(cliArgv)
    /\ IF cliDesc'.verdict = "ok"
       THEN /\ cliPc' = "parsed"
            /\ UNCHANGED cliExit
       ELSE /\ cliPc' = "exited"
            /\ cliExit' = [code |-> 1, signal |-> "none"]
    /\ UNCHANGED <<cliArgv, wrapperVars>>
    /\ UNCHANGED <<kvVars, foldVars, execVars, mergeVars>>

\* The rest of the executor's main: process.exit(0) after the tool call,
\* process.exit(1) from the catch block.
CliChildRuns ==
    /\ cliPc = "parsed"
    /\ \E code \in {0, 1} : cliExit' = [code |-> code, signal |-> "none"]
    /\ cliPc' = "exited"
    /\ UNCHANGED <<cliArgv, cliDesc, wrapperVars>>
    /\ UNCHANGED <<kvVars, foldVars, execVars, mergeVars>>

\* The child is ended by a signal: it has no exit code (-1 here, null in
\* the exit event).
CliChildKilled ==
    /\ cliPc \in {"main", "parsed"}
    /\ \E sig \in {"SIGINT", "SIGTERM"} : cliExit' = [code |-> -1, signal |-> sig]
    /\ cliPc' = "exited"
    /\ UNCHANGED <<cliArgv, cliDesc, wrapperVars>>
    /\ UNCHANGED <<kvVars, foldVars, execVars, mergeVars>>

\* spawn could not start the executable: the child never runs.
CliSpawnFails ==
    /\ cliPc = "main"
    /\ cliPc' = "failed"
    /\ UNCHANGED <<cliArgv, cliDesc, cliExit, wrapperVars>>
    /\ UNCHANGED <<kvVars, foldVars, execVars, mergeVars>>

\* Variant: a missing exit code counts as a failure, process.exit(code ?? 1).
exitEventCodeOrOne(e) ==
    IF e.signal # "none" THEN 1 ELSE e.code

\* code || 0 in the "exit" listener: the listener is given (code, signal),
\* and code is null when a signal ended the child.
exitEventCode(e) ==
    IF e.signal # "none" \/ e.code = 0 THEN 0 ELSE e.code

\* cliProcess.on("exit", (code) => process.exit(code || 0))
CliChildExitEvent ==
    /\ topPc = "cliRunning"
    /\ cliPc = "exited"
    /\ topExited' = TRUE
    /\ topExitCode' = exitEventCode(cliExit)
    /\ topPc' = "exited"
    /\ UNCHANGED <<topVariant, argvItems, top, configFile, profile, loadCalls, fsCalls,
                   spawned, topStdout, topStderr, cliVars>>
    /\ UNCHANGED <<kvVars, foldVars, execVars, mergeVars>>

\* cliProcess.on("error", ...): console.error, process.exit(1)
CliChildErrorEvent ==
    /\ topPc = "cliRunning"
    /\ cliPc = "failed"
    /\ TopFail(<<>>, <<Message("Failed to start CLI client:", <<"spawn error">>)>>, 1)
    /\ UNCHANGED <<topVariant, argvItems, top, configFile, profile, loadCalls, fsCalls,
                   spawned, cliVars>>
    /\ UNCHANGED <<kvVars, foldVars, execVars, mergeVars>>

\* What can be typed after the executor's name: its three flags with a
\* value, lone tokens, a flag it does not register, the separator, and an
\* option glued to its value the way runCliClient passes it.
ExecItems ==
    { <<"--env", "K=V">>, <<"--tool-name", "tool">>, <<"--tool-arg", "k=v">>,
      <<"srv">>, <<"arg">>, <<"--debug">>, <<"--">>, <<"--env K=V">> }

ExecItemSeqs == UNION {[1..n -> ExecItems] : n \in 0..MaxItems}

\* The executor started on its own, about to run main.
ExecArgsInit ==
    /\ topVariant = "js"
    /\ argvItems = <<>>
    /\ topPc = "idle"
    /\ top = EmptyResult
    /\ configFile = NoFile
    /\ profile = NoProfile
    /\ loadCalls = 0
    /\ fsCalls = 0
    /\ spawned = <<>>
    /\ topStdout = <<>>
    /\ topStderr = <<>>
    /\ topExited = FALSE
    /\ topExitCode = -1
    /\ cliPc = "main"
    /\ cliArgv \in {Flatten(items) : items \in ExecItemSeqs}
    /\ cliDesc = NoDesc
    /\ cliExit = NoExit

ExecArgsNext ==
    \/ ChildParseArgs
    \/ CliChildRuns

WrapperNext ==
    \/ TopNext
    \/ ChildParseArgs
    \/ CliChildRuns
    \/ CliChildKilled
    \/ CliSpawnFails
    \/ CliChildExitEvent
    \/ CliChildErrorEvent

----------------------------------------------------------------------------
(* The environment handed to the spawned server *)

EnvKeys == {"PATH", "KEY"}
EnvValues == {"u", "v"}

\* A Record<string, string> over the keys above.
EnvMaps == UNION {[D -> EnvValues] : D \in SUBSET EnvKeys}

SpreadAllFirstWins(a, b) ==
    [k \in DOMAIN a \cup DOMAIN b |-> IF k \in DOMAIN a THEN a[k] ELSE b[k]]

\* { ...a, ...b }
SpreadAll(a, b) ==
    [k \in DOMAIN a \cup DOMAIN b |-> IF k \in DOMAIN b THEN b[k] ELSE a[k]]

\* const defaultEnvironment = { ...getDefaultEnvironment(),
\*     ...(process.env.CLI_ENV_VARS ? JSON.parse(process.env.CLI_ENV_VARS) : {}) }
defaultEnvironment == SpreadAll(protocolEnv, jsonEnv)

MergeIdle ==
    /\ ambientEnv = EmptyMap
    /\ protocolEnv = EmptyMap
    /\ jsonEnv = EmptyMap
    /\ overrideEnv = EmptyMap
    /\ serverEnv = EmptyMap
    /\ envBuilt = FALSE

\* The four sources of the server's environment, before executeCliToolCall.
MergeInit ==
    /\ ambientEnv \in EnvMaps
    /\ protocolEnv \in EnvMaps
    /\ jsonEnv \in EnvMaps
    /\ overrideEnv \in EnvMaps
    /\ serverEnv = EmptyMap
    /\ envBuilt = FALSE

\* const env = { ...process.env, ...defaultEnvironment, ...envVars }, given
\* to new StdioClientTransport({ command, args, env, stderr: "pipe" })
BuildEnvironment ==
    /\ ~envBuilt
    /\ serverEnv' = SpreadAll(SpreadAll(ambientEnv, defaultEnvironment), overrideEnv)
    /\ envBuilt' = TRUE
    /\ UNCHANGED <<ambientEnv, protocolEnv, jsonEnv, overrideEnv>>
    /\ UNCHANGED <<kvVars, foldVars, execVars, topVars>>

MergeNext == BuildEnvironment

----------------------------------------------------------------------------
(* Specifications *)

Init == ExecInit /\ FoldInit /\ KvInit /\ kvVariant = "cli" /\ TopIdle /\ MergeIdle /\ IngestIdle

InitKV == KvInit /\ FoldInit /\ ExecIdle /\ TopIdle /\ MergeIdle /\ IngestIdle

InitFold == KvInit /\ kvVariant = "cli" /\ FoldInit /\ ExecIdle /\ TopIdle /\ MergeIdle /\ IngestIdle

InitTop == TopInit /\ KvInit /\ kvVariant = "cli" /\ FoldInit /\ ExecIdle /\ MergeIdle /\ IngestIdle

InitMerge == MergeInit /\ KvInit /\ kvVariant = "cli" /\ FoldInit /\ ExecIdle /\ TopIdle /\ IngestIdle

InitCli == Init \/ InitTop

Next ==
    \/ TopLevelLaunch
    \/ ParseArgs
    \/ GetConfigFromEnvironment
    \/ ExecuteBegin
    \/ NoServerCommand
    \/ ResolveExecutable
    \/ ConstructTransport
    \/ Connect
    \/ CallTool
    \/ PrintResult
    \/ CloseAfterCall
    \/ CatchError
    \/ CloseInCatch
    \/ Rethrow
    \/ MainExitZero
    \/ MainCatch

\* One run of the CLI executor.
Spec == Init /\ [][Next]_vars

SurroundingsNext ==
    \/ Next
    \/ \E sig \in {"SIGINT", "SIGTERM"} : Interrupt(sig)
    \/ ServerWritesStderr

\* One run of the CLI executor with what its surroundings can do to it.
SpecSurroundings == Init /\ [][SurroundingsNext]_vars

\* One run of the CLI executor in which every awaited operation settles.
SpecFair == Init /\ [][Next]_vars /\ WF_vars(Next)

\* The key=value parser, one call after another.
SpecKV == InitKV /\ [][KvNext]_vars

\* The tokens of one repeatable flag folded into a mapping.
SpecFold == InitFold /\ [][FoldNext]_vars

\* One run of the top-level CLI.
SpecTop == InitTop /\ [][TopNext]_vars

InitExecArgs == ExecArgsInit /\ KvInit /\ kvVariant = "cli" /\ FoldInit /\ ExecIdle /\ MergeIdle /\ IngestIdle

\* The CLI executor's parseArgs on every command line.
SpecExecArgs == InitExecArgs /\ [][ExecArgsNext]_vars

InitIngest == IngestInit /\ KvInit /\ kvVariant = "cli" /\ FoldInit /\ ExecIdle /\ TopIdle /\ MergeIdle

\* One list of server arguments through MCP_COMMAND_ARGS.
SpecIngest == InitIngest /\ [][IngestNext]_vars

\* The top-level CLI together with the CLI executor it spawns.
SpecWrapper == InitTop /\ [][WrapperNext]_vars

\* The environment of one spawned server.
SpecMerge == InitMerge /\ [][MergeNext]_vars

CliNext == Next \/ TopNext

\* One run of either command-line program: the top-level CLI or the executor.
SpecCli == InitCli /\ [][CliNext]_vars

----------------------------------------------------------------------------
(* What the specification says a token is, stated on the token itself      *)
(* (positions of its '=' characters), independently of Split.              *)

EqPositions(s) == {i \in 1..Len(s) : s[i] = "="}

HasEq(s) == EqPositions(s) # {}

\* Position of the first '='; only used when HasEq(s).
FirstEq(s) == CHOOSE i \in EqPositions(s) : \A j \in EqPositions(s) : i <= j

\* The text before the first '=' and the entire remainder after it.
KeyOf(s) == SubSeq(s, 1, FirstEq(s) - 1)
RemainderOf(s) == SubSeq(s, FirstEq(s) + 1, Len(s))

\* Exactly one '=', something before it and something after it.
SinglePair(s) ==
    /\ Cardinality(EqPositions(s)) = 1
    /\ KeyOf(s) # <<>>
    /\ RemainderOf(s) # <<>>

\* The first piece of the split is empty, or the second is missing or empty:
\* no '=' at all, '=' first, or nothing between the first '=' and the next
\* '=' or the end of the token.
EmptyKeyOrValue(s) ==
    \/ ~HasEq(s)
    \/ FirstEq(s) = 1
    \/ FirstEq(s) = Len(s)
    \/ s[FirstEq(s) + 1] = "="

\* A non-empty key before the first '=' and a non-empty remainder after it.
FirstEqPair(s) ==
    /\ HasEq(s)
    /\ KeyOf(s) # <<>>
    /\ RemainderOf(s) # <<>>

----------------------------------------------------------------------------
(* C7. For a token with exactly one '=', a non-empty key before it and a   *)
(* non-empty value after it, parseKeyValuePair(s, M) returns M with that   *)
(* key set to that value and every other key of M as it was, and the       *)
(* object M itself holds after the call what it held before.               *)
C7_SinglePairSetsKey ==
    (kvVariant = "cli" /\ kvCalls > 0 /\ SinglePair(kvTok)) =>
        /\ DOMAIN kvRet = (DOMAIN kvPrev) \cup {KeyOf(kvTok)}
        /\ kvRet[KeyOf(kvTok)] = RemainderOf(kvTok)
        /\ \A k \in (DOMAIN kvPrev) \ {KeyOf(kvTok)} : kvRet[k] = kvPrev[k]
        /\ kvPrevAfter = kvPrev
        /\ ~kvThrew

\* A call on a single-pair token whose M holds another key and also the
\* token's key under a different value.
C7_Witness ==
    /\ kvVariant = "cli"
    /\ kvCalls > 0
    /\ SinglePair(kvTok)
    /\ KeyOf(kvTok) \in DOMAIN kvPrev
    /\ kvPrev[KeyOf(kvTok)] # RemainderOf(kvTok)
    /\ \E k \in DOMAIN kvPrev : k # KeyOf(kvTok)

(* C8. For a token whose split yields an empty key or an empty value,      *)
(* parseKeyValuePair(s, M) returns M unchanged and raises no error; so     *)
(* does one iteration of the legacy parser's env-flag loop.                *)
C8_MalformedLeavesMapping ==
    (kvCalls > 0 /\ EmptyKeyOrValue(kvTok)) =>
        /\ kvRet = kvPrev
        /\ kvPrevAfter = kvPrev
        /\ kvAcc = kvPrev
        /\ ~kvThrew

\* A malformed token arriving when the mapping already holds a pair, in
\* the legacy loop, with an '=' in the token.
C8_Witness ==
    /\ kvVariant = "legacy"
    /\ kvCalls > 0
    /\ HasEq(kvTok)
    /\ EmptyKeyOrValue(kvTok)
    /\ kvPrev # EmptyMap

\* The same, through parseKeyValuePair.
C8_WitnessCli ==
    /\ kvVariant = "cli"
    /\ kvCalls > 0
    /\ HasEq(kvTok)
    /\ EmptyKeyOrValue(kvTok)
    /\ kvPrev # EmptyMap

(* C9. parseKeyValuePair splits on the first '=' only: a token with a      *)
(* non-empty key before its first '=' and a non-empty remainder after it   *)
(* maps the key to the entire remainder, further '=' included.             *)
C9_SplitsOnFirstEqOnly ==
    (kvVariant = "cli" /\ kvCalls > 0 /\ FirstEqPair(kvTok)) =>
        /\ KeyOf(kvTok) \in DOMAIN kvRet
        /\ kvRet[KeyOf(kvTok)] = RemainderOf(kvTok)

----------------------------------------------------------------------------
(* C10. Folding parseKeyValuePair over the tokens of a repeatable flag,    *)
(* from the empty mapping: the keys of the mapping are exactly the keys of *)
(* the well-formed tokens, each mapped to the value of its last            *)
(* well-formed occurrence, and no key or value is the empty string, in     *)
(* every intermediate and final mapping.                                   *)
WellFormedAt == {i \in 1..Len(foldToks) : FirstEqPair(foldToks[i])}

LastWellFormed(k) ==
    CHOOSE i \in WellFormedAt :
        /\ KeyOf(foldToks[i]) = k
        /\ \A j \in WellFormedAt : KeyOf(foldToks[j]) = k => j <= i

C10_FoldKeepsLastWellFormed ==
    /\ DOMAIN foldAcc = {KeyOf(foldToks[i]) : i \in WellFormedAt}
    /\ \A k \in DOMAIN foldAcc :
        /\ foldAcc[k] = RemainderOf(foldToks[LastWellFormed(k)])
        /\ k # <<>>
        /\ foldAcc[k] # <<>>

----------------------------------------------------------------------------
(* Claims about one run of the CLI executor *)

Contains(seq, x) == \E i \in 1..Len(seq) : seq[i] = x

\* executeCliToolCall is over: it returned, it threw, or the process exited.
FunctionLeft == returned \/ thrown # "none" \/ exited

(* C1. On every path on which a StdioClientTransport was constructed       *)
(* (connect rejects, callTool rejects, or the call succeeds),              *)
(* transport.close() has been invoked by the time executeCliToolCall       *)
(* returns or throws, hence before main calls process.exit.                *)
C1_CloseBeforeLeaving ==
    (transport = "constructed" /\ FunctionLeft) => closeCalls >= 1

\* A run whose callTool rejected and which has exited after closing.
C1_Witness ==
    /\ exited
    /\ transport = "constructed"
    /\ callOutcome = "rejected"
    /\ closeCalls = 1

(* C2. If transport.close() itself fails, the failure is logged and the    *)
(* original outcome propagates: after a failed connect or callTool the     *)
(* original error is the one rethrown, and after a successful callTool a   *)
(* failing close does not make the run a failure (main exits 0).           *)
C2_CloseFailureDoesNotMask ==
    (exited /\ Contains(closeOutcomes, "rejected")) =>
        /\ stderr # <<>>
        /\ connectOutcome = "rejected" => thrown = "connectError"
        /\ callOutcome = "rejected" => thrown = "callToolError"
        /\ callOutcome = "result" => (thrown = "none" /\ exitCode = 0)

(* C3. client.callTool is invoked at most once and only after              *)
(* client.connect resolved; when resolving the executable, constructing    *)
(* the transport or connecting fails, no call-tool request is ever sent    *)
(* and a constructed transport is closed before the error propagates;      *)
(* connect and callTool are never invoked a second time.                   *)
C3_CallToolOnlyAfterConnect ==
    /\ connectCalls <= 1
    /\ callToolCalls <= 1
    /\ callToolCalls = 1 => connectOutcome = "resolved"
    /\ error \in {"resolveError", "transportError", "connectError"} => callToolCalls = 0
    /\ (thrown \in {"resolveError", "transportError", "connectError"} /\ transport = "constructed")
            => closeCalls = 1

\* A run whose connect rejected: it exited without a tool call, transport closed.
C3_Witness ==
    /\ exited
    /\ connectOutcome = "rejected"
    /\ thrown = "connectError"
    /\ callToolCalls = 0
    /\ closeCalls = 1

ValidationFailure ==
    \/ ~cliToolName
    \/ ~mcpServerCommand
    \/ toolArgsJson = "bad"

LaunchFailure == error \in {"resolveError", "transportError"}

(* C4. main exits with code 1, after a diagnostic on standard error, on    *)
(* every validation failure, launch failure, connect failure and callTool  *)
(* failure (a rejected callTool); it exits with code 0 when connect,       *)
(* callTool and close all succeed; no run ends with another exit code.     *)
C4_ExitCodes ==
    /\ exited <=> exitCode \in {0, 1}
    /\ exited =>
        /\ (ValidationFailure \/ LaunchFailure \/ connectOutcome = "rejected"
                \/ callOutcome = "rejected")
             => (exitCode = 1 /\ stderr # <<>>)
        /\ (connectOutcome = "resolved" /\ callOutcome = "result"
                /\ closeOutcomes = <<"resolved">>)
             => exitCode = 0

\* A run that exited 1 through main's catch after callTool rejected.
C4_Witness ==
    /\ exited
    /\ exitCode = 1
    /\ error = "callToolError"
    /\ Contains(stderr, "Failed to execute tool call")

\* A run that exited 0 after connect, callTool and close all succeeded.
C4_WitnessSuccess ==
    /\ exited
    /\ exitCode = 0
    /\ callOutcome = "result"
    /\ closeOutcomes = <<"resolved">>

(* C5. When callTool resolves with a result flagged as an error, the run   *)
(* is a failure: a diagnostic goes to standard error and the process       *)
(* exits with code 1.                                                      *)
C5_RemoteToolErrorFails ==
    (exited /\ callOutcome = "isError") => (exitCode = 1 /\ stderr # <<>>)

(* C6. On a successful run standard output holds exactly one JSON          *)
(* document, the tool result, and nothing else.                            *)
C6_StdoutOnlyResult ==
    (exited /\ exitCode = 0) => stdout = <<"JSON result">>

----------------------------------------------------------------------------
(* What the user typed, read off the command line itself: the front        *)
(* segment is what precedes the first "--", the passthrough segment what   *)
(* follows it.                                                             *)

HasSeparator == \E i \in 1..Len(argvItems) : argvItems[i] = <<"--">>

FrontLen ==
    IF HasSeparator
    THEN (CHOOSE i \in 1..Len(argvItems) :
              argvItems[i] = <<"--">> /\ \A j \in 1..(i - 1) : argvItems[j] # <<"--">>) - 1
    ELSE Len(argvItems)

FrontItems == SubSeq(argvItems, 1, FrontLen)

PassthroughItems == SubSeq(argvItems, FrontLen + 2, Len(argvItems))

\* The flag was given, with its value, in the front segment.
Supplied(flag) == \E i \in 1..FrontLen : argvItems[i][1] = flag

\* parseArgs has run (to its return, to the call of loadConfigFile, or to an exit).
TopParsed == topPc \notin {"idle", "start"}

TopFailedEarly ==
    /\ topExited
    /\ topExitCode # 0
    /\ spawned = <<>>

\* C11: in the top-level parseArgs, when --config is given without --server,
\* or --server without --config, the process exits with a non-zero code
\* before loadConfigFile is called, before any file-system call and before
\* any child process is spawned.
C11_ConfigAndServerTogether ==
    (TopParsed /\ Supplied("--config") # Supplied("--server"))
        => (TopFailedEarly /\ loadCalls = 0 /\ fsCalls = 0)

C11_Witness ==
    /\ topVariant = "js"
    /\ Supplied("--config")
    /\ ~Supplied("--server")
    /\ topExited
    /\ topExitCode = 1

\* An executor run has read its inputs (past parseArgs / getConfigFromEnvironment).
ExecParsed == pc \notin {"idle", "wrapper", "main"}

\* C12: tool arguments given without a tool name always fail validation: the
\* process exits with a non-zero code and spawns nothing, in the top-level
\* parseArgs (no CLI child, no server) and in the CLI executor (no transport,
\* hence no server process).
C12_ToolArgsNeedToolName ==
    /\ (TopParsed /\ Supplied("--tool-arg") /\ ~Supplied("--tool-name")) => TopFailedEarly
    /\ (ExecParsed /\ cliToolArgs /\ ~cliToolName)
           => (exited /\ exitCode # 0 /\ transport = "null" /\ connectCalls = 0)

C12_Witness ==
    /\ topVariant = "js"
    /\ Supplied("--tool-arg")
    /\ Supplied("--cli")
    /\ ~Supplied("--tool-name")
    /\ topExited

C12_WitnessExecutor ==
    /\ cliToolArgs
    /\ ~cliToolName
    /\ exited
    /\ exitCode = 1

\* The values given to a flag in the front segment, in order.
RECURSIVE ValuesOf(_, _)
ValuesOf(items, flag) ==
    IF items = <<>> THEN <<>>
    ELSE (IF Head(items)[1] = flag /\ Len(Head(items)) = 2 THEN <<Head(items)[2]>> ELSE <<>>)
         \o ValuesOf(Tail(items), flag)

FrontValues(flag) == ValuesOf(FrontItems, flag)

LastFrontValue(flag) ==
    IF FrontValues(flag) = <<>> THEN "" ELSE FrontValues(flag)[Len(FrontValues(flag))]

RecognizedFlags == {"-e", "--config", "--server", "--cli", "--tool-name", "--tool-arg"}

\* A token of the passthrough segment is spelled like a recognised flag.
FlagAfterSeparator(flag) ==
    \E i \in (FrontLen + 2)..Len(argvItems) : argvItems[i][1] = flag

\* The positional tokens of the descriptor: the command, then its arguments.
TopPositionals ==
    (IF top.mcpServerCommand = "" THEN <<>> ELSE <<top.mcpServerCommand>>) \o top.mcpServerArgs

\* C13: in the top-level parseArgs the tokens after the first "--" are never
\* taken as recognised flags: config path, server name, CLI-mode switch, tool
\* name, tool arguments and env overrides are those of the front segment
\* alone, and without a configuration file a passthrough token spelled like a
\* recognised flag stays among the server's positional tokens.
C13_PassthroughNeverFlags ==
    TopParsed =>
        /\ top.configPath = LastFrontValue("--config")
        /\ top.serverName = LastFrontValue("--server")
        /\ top.cliMode = Supplied("--cli")
        /\ top.cliToolName = LastFrontValue("--tool-name")
        /\ top.cliToolArgs = FrontValues("--tool-arg")
        /\ (topVariant = "js" /\ ~profile.present) => top.envVars = ArrayOf(FrontValues("-e"))
        /\ (topPc = "parsed" /\ top.configPath = "") =>
               \A flag \in RecognizedFlags :
                   FlagAfterSeparator(flag) => Contains(top.mcpServerArgs, flag)

C13_Witness ==
    /\ topPc = "parsed"
    /\ FlagAfterSeparator("--cli")
    /\ FlagAfterSeparator("-e")
    /\ ~top.cliMode
    /\ top.envVars = ArrayOf(<<>>)
    /\ Contains(top.mcpServerArgs, "--cli")

\* The run went through the configuration file and parseArgs returned.
ConfigModeReturned ==
    /\ topPc \in {"parsed", "cliRunning", "webRunning"} \/ (topPc = "exited" /\ profile.present)
    /\ Supplied("--config")
    /\ Supplied("--server")

\* The tokens the user typed that are not a recognised flag or its value.
CommandLineLeftovers == {"srv", "arg", "--debug", "--env", "K=V", "-e", "--", "node", "script.js"}

C14_WitnessPassthrough ==
    /\ ConfigModeReturned
    /\ topPc = "parsed"
    /\ PassthroughItems # <<>>
    /\ profile.hasArgs

\* A unit of the front segment that is neither a recognised flag nor the
\* env flag in its long spelling: a positional token or an unknown option.
IsPositionalItem(item) == item[1] \notin (RecognizedFlags \cup {"--env"})

\* The positional tokens of the user's command line: those of the front
\* segment, then the passthrough segment as typed.
UserPositionals ==
    Flatten(SelectSeq(FrontItems, IsPositionalItem)) \o Flatten(PassthroughItems)

\* C15: without --config, the descriptor's server command followed by its
\* server arguments is exactly the positional tokens of the user's command
\* line, in order: nothing added, dropped or reordered.
C15_DirectModePositionals ==
    (topPc = "parsed" /\ ~Supplied("--config")) => TopPositionals = UserPositionals

IsEnvItem(item) == item[1] \in {"-e", "--env"}

\* The KEY=VALUE tokens given with either spelling in the front segment.
EnvGiven == [i \in 1..Len(SelectSeq(FrontItems, IsEnvItem)) |-> SelectSeq(FrontItems, IsEnvItem)[i][2]]

\* C20: in the top-level parseArgs (bin/cli.js), every -e KEY=VALUE and every
\* --env KEY=VALUE of the front segment adds KEY=VALUE to the env overrides,
\* and neither spelling nor the value is among the positional tokens.
C20_BothEnvSpellings ==
    (topVariant = "js" /\ topPc = "parsed" /\ ~Supplied("--config") /\ ~HasSeparator) =>
        /\ top.envVars = ArrayOf(EnvGiven)
        /\ ~Contains(TopPositionals, "-e")
        /\ ~Contains(TopPositionals, "--env")
        /\ ~Contains(TopPositionals, "K=V")

\* The four layers of the server's environment, lowest first.
Layers == <<ambientEnv, protocolEnv, jsonEnv, overrideEnv>>

DefinedSomewhere(k) == \E i \in 1..4 : k \in DOMAIN Layers[i]

LastDefining(k) ==
    CHOOSE i \in 1..4 :
        k \in DOMAIN Layers[i] /\ \A j \in (i + 1)..4 : k \notin DOMAIN Layers[j]

\* C16: the environment given to the spawned server holds exactly the keys
\* defined by the ambient environment, the protocol defaults, the
\* out-of-band JSON variable or the descriptor's overrides, and each key
\* has the value of the last of these four layers that defines it.
C16_LastLayerWins ==
    envBuilt =>
        /\ DOMAIN serverEnv = {k \in EnvKeys : DefinedSomewhere(k)}
        /\ \A k \in DOMAIN serverEnv : serverEnv[k] = Layers[LastDefining(k)][k]

C16_Witness ==
    /\ envBuilt
    /\ \A i \in 1..4 : "KEY" \in DOMAIN Layers[i]
    /\ overrideEnv["KEY"] # jsonEnv["KEY"]
    /\ serverEnv["KEY"] = overrideEnv["KEY"]
    /\ "PATH" \in DOMAIN ambientEnv \cap DOMAIN protocolEnv
    /\ "PATH" \notin DOMAIN jsonEnv \cup DOMAIN overrideEnv
    /\ ambientEnv["PATH"] # protocolEnv["PATH"]
    /\ serverEnv["PATH"] = protocolEnv["PATH"]

\* C17: in the CLI executor (argv variant and environment-variable variant),
\* when the tool name or the server command is empty, no executable is ever
\* resolved, no transport constructed and no connection attempted, the run
\* never gets past the checks, and when it has exited the code is 1.
C17_EmptyNameOrCommandFails ==
    (pc # "idle" /\ (~cliToolName \/ ~mcpServerCommand)) =>
        /\ resolveCalls = 0
        /\ transport = "null"
        /\ connectCalls = 0
        /\ pc \in {"wrapper", "main", "execute", "resolve", "mainCatch", "exited"}
        /\ exited => exitCode = 1

C17_Witness ==
    /\ variant = "env"
    /\ cliToolName
    /\ ~mcpServerCommand
    /\ exited
    /\ exitCode = 1
    /\ Contains(stderr, "No MCP server command specified")

C17_WitnessArgv ==
    /\ variant = "argv"
    /\ cliToolName
    /\ ~mcpServerCommand
    /\ exited
    /\ exitCode = 1

\* The configuration file was read and parsed, and it has no mcpServers or
\* no profile under the requested name.
ProfileUnknown ==
    /\ configFile.state = "parsed"
    /\ ~configFile.hasMcpServers \/ ~Contains(configFile.names, LastFrontValue("--server"))

IsName(piece) == piece # ", "

\* The process failed: exit code 1, no profile, no child.
ConfigFailure ==
    /\ ~profile.present
    /\ topExited
    /\ topExitCode = 1
    /\ spawned = <<>>

\* C18: when the configuration document has no mcpServers or no profile
\* under the requested name, loadConfigFile fails (exit code 1, no profile)
\* and writes an "Available servers" line listing exactly the profile names
\* present, in order; the line is written, with an empty list, also when
\* mcpServers is absent or empty.
C18_UnknownProfileListsNames ==
    ProfileUnknown =>
        /\ ConfigFailure
        /\ \E i \in 1..Len(topStderr) :
               /\ topStderr[i].msg = "Available servers: "
               /\ SelectSeq(topStderr[i].detail, IsName) = configFile.names

C18_Witness ==
    /\ ProfileUnknown
    /\ configFile.names = <<"prod">>
    /\ topExited

C18_WitnessEmpty ==
    /\ ProfileUnknown
    /\ ~configFile.hasMcpServers
    /\ topExited

\* The absolute path of the configuration file the user named.
AbsolutePathOf(p) == IF p = "/etc/cfg.json" THEN <<"/etc/cfg.json">> ELSE <<"cwd", p>>

Diagnosed(msg, detail) ==
    \E i \in 1..Len(topStderr) : topStderr[i] = [msg |-> msg, detail |-> detail]

\* C19: a missing file, a file that is not valid JSON and an unknown profile
\* name are all fatal: no profile is returned, the process has exited with
\* code 1 after a diagnostic and no child was spawned; the diagnostic names
\* the resolved absolute path when the file is missing and carries the JSON
\* parser's message when the content is invalid.
C19_ConfigErrorsFatal ==
    (configFile.state \in {"missing", "unreadable", "invalidJson"} \/ ProfileUnknown) =>
        /\ ConfigFailure
        /\ topStderr # <<>>
        /\ configFile.state = "missing" =>
               Diagnosed("Error: Config file not found: ", AbsolutePathOf(LastFrontValue("--config")))
        /\ configFile.state = "invalidJson" =>
               Diagnosed("Error: Invalid JSON in config file: ", <<"parser message">>)

C19_Witness ==
    /\ configFile.state = "missing"
    /\ LastFrontValue("--config") = "cfg.json"
    /\ topExited

C19_WitnessInvalid ==
    /\ configFile.state = "invalidJson"
    /\ topExited

\* C21: when SIGINT or SIGTERM arrives after the server child was spawned,
\* the transport has been closed (which is what terminates the child) by the
\* time the executor has exited.
C21_InterruptTearsDown ==
    (interrupted # "none" /\ ServerChildSpawned /\ exited) => closeCalls > 0

\* C22: once the executor has exited, every chunk the server child wrote to
\* its standard error has been written to the executor's standard error,
\* and none of them to its standard output.
C22_ChildStderrForwarded ==
    exited =>
        /\ \A i \in 1..Len(childStderr) : Contains(stderr, childStderr[i])
        /\ \A i \in 1..Len(childStderr) : ~Contains(stdout, childStderr[i])

\* C29: in one run of executeCliToolCall, transport.close is called at most
\* once.
C29_CloseAtMostOnce == closeCalls <= 1

\* The stages of main, in the order they can be gone through.
StageOf(p) ==
    CASE p = "wrapper" -> 0
      [] p = "main" -> 1
      [] p = "execute" -> 2
      [] p = "resolve" -> 3
      [] p = "construct" -> 4
      [] p = "connect" -> 5
      [] p = "callTool" -> 6
      [] p = "print" -> 7
      [] p = "close" -> 8
      [] p = "returned" -> 9
      [] p = "catch" -> 10
      [] p = "catchClose" -> 11
      [] p = "rethrow" -> 12
      [] p = "mainCatch" -> 13
      [] p = "exited" -> 14
      [] OTHER -> -1

\* C30: when every awaited operation settles, a run of main reaches
\* process.exit; it does so after at most one connect and one callTool, every
\* step moves to a later stage, and nothing happens after the exit.
C30_MainReachesExitOnce ==
    /\ <>exited
    /\ [](connectCalls <= 1 /\ callToolCalls <= 1)
    /\ [][~exited /\ StageOf(pc') > StageOf(pc)]_vars

C30_Witness ==
    /\ exited
    /\ exitCode = 0
    /\ connectCalls = 1
    /\ callToolCalls = 1
    /\ closeCalls = 1

----------------------------------------------------------------------------
(* The executor's own command line *)

ExecFlags == {"--env", "--tool-name", "--tool-arg"}

\* The positional tokens of a list, as the document counts them: a flag and
\* the value that follows it are not positional, every other token is.
RECURSIVE PositionalTokens(_)
PositionalTokens(toks) ==
    IF toks = <<>> THEN <<>>
    ELSE IF Head(toks) \in ExecFlags THEN PositionalTokens(Tail(Tail(toks)))
    ELSE <<Head(toks)>> \o PositionalTokens(Tail(toks))

\* Only the executor's flags with their values and plain words.
PlainCommandLine(toks) ==
    \A i \in 1..Len(toks) : maybeOption(toks[i]) => toks[i] \in ExecFlags

\* C23: when the executor's parseArgs returns, the server command is the
\* first positional token of process.argv.slice(2) and the server arguments
\* are the remaining positional tokens in order: no leading token is skipped.
C23_NoLeadingTokenSkipped ==
    (cliPc = "parsed" /\ PlainCommandLine(cliArgv))
        => /\ PositionalTokens(cliArgv) # <<>>
           /\ cliDesc.mcpServerCommand = Head(PositionalTokens(cliArgv))
           /\ cliDesc.mcpServerArgs = Tail(PositionalTokens(cliArgv))

----------------------------------------------------------------------------
(* The wrapper and its CLI child *)

\* The CLI child has built its descriptor from the argv runCliClient gave it.
ChildDescribed == cliDesc.verdict # "none" /\ spawned # <<>>

\* A KEY=VALUE token is present in a mapping as KEY -> VALUE.
PairPresent(tok, map) ==
    LET parts == Split(Chars(tok), "=")
    IN  Len(parts) = 2 => (parts[1] \in DOMAIN map /\ map[parts[1]] = parts[2])

\* C24: in CLI mode the descriptor the CLI child builds from the argv that
\* runCliClient passes equals the one the wrapper resolved: same command,
\* same ordered server arguments (the tokens after "--" among them, not
\* re-read as flags), every -e KEY=VALUE among the env overrides, same tool
\* name, every --tool-arg k=v among the tool arguments.
C24_ChildDescriptorEqualsWrapper ==
    (ChildDescribed /\ top.mcpServerCommand # "")
        => /\ cliDesc.verdict = "ok"
           /\ cliDesc.mcpServerCommand = top.mcpServerCommand
           /\ cliDesc.mcpServerArgs = top.mcpServerArgs
           /\ cliDesc.cliToolName = top.cliToolName
           /\ \A i \in 1..Len(top.envVars.items) : PairPresent(top.envVars.items[i], cliDesc.envVars)
           /\ \A i \in 1..Len(top.cliToolArgs) : PairPresent(top.cliToolArgs[i], cliDesc.cliToolArgs)

\* main has gone past parseArgs in CLI mode with a profile of the file.
CliModeWithProfile ==
    /\ ConfigModeReturned
    /\ top.cliMode
    /\ topPc # "parsed"

\* C25: in CLI mode with --config and --server the wrapper launches the CLI
\* child with the profile's command, its args and one entry per env
\* override of the profile (none when the profile has no env), and
\* runCliClient does not fail on the profile's env value.
C25_ProfileEnvLaunchesChild ==
    CliModeWithProfile
        => /\ Len(spawned) = 1
           /\ spawned[1].child = "cli"
           /\ Len(cliArgv) = 1 + Len(profile.args) + Len(profile.env) + 2 + Len(top.cliToolArgs)
           /\ SubSeq(cliArgv, 1, 1 + Len(profile.args)) = <<profile.command>> \o profile.args
           /\ \A i \in 1..Len(topStderr) : topStderr[i].msg # "TypeError"

\* The wrapper has exited after launching its CLI child.
WrapperExitedAfterChild ==
    /\ topExited
    /\ \E i \in 1..Len(spawned) : spawned[i].child = "cli"

ChildExitedZero ==
    /\ cliPc = "exited"
    /\ cliExit.signal = "none"
    /\ cliExit.code = 0

\* C26: in CLI mode the wrapper exits with code 0 only if its CLI child
\* exited with code 0; when the child exits non-zero, is ended by a signal
\* or cannot be started, the wrapper exits non-zero.
C26_WrapperExitFollowsChild ==
    WrapperExitedAfterChild => (topExitCode = 0 <=> ChildExitedZero)

----------------------------------------------------------------------------
(* The two top-level sources *)

OtherVariant(v) == IF v = "js" THEN "ts" ELSE "js"

\* parseArgs of the given source ends the process on these tokens before it
\* returns or calls loadConfigFile.
ParseArgsFatal(v, args) ==
    LET known == commanderParse(knownProgramOptions(v),
                                <<"node", "script.js">> \o knownOptions(args), "user")
    IN  known.error # "none" \/ topValidation(v, resultOfOpts(v, known.occ)) # "ok"

\* This run ended inside parseArgs.
EndedInParseArgs ==
    /\ topExited
    /\ loadCalls = 0
    /\ spawned = <<>>

\* C28: the TypeScript and the JavaScript top-level parseArgs agree on every
\* token list: one ends the process with a fatal error exactly when the
\* other does.
C28_SourcesAgreeOnFatal ==
    TopParsed => (EndedInParseArgs <=> ParseArgsFatal(OtherVariant(topVariant), Flatten(argvItems)))

----------------------------------------------------------------------------
(* Server arguments through the environment *)

\* C27: a list of server arguments joined with single spaces into
\* MCP_COMMAND_ARGS and tokenised by the executor comes out as the same
\* ordered list of strings, also when an argument holds a space or is empty.
C27_EnvironmentRoundTrip ==
    ingestPc = "parsed" => origArgs = serverArgs

====
